---- MODULE Spec2Model ----
(***************************************************************************)
(* Model of src/dataset/dataset_para.py: Dataset construction (field       *)
(* resolution, index catalog, perturbation / covariate encoding, composite *)
(* keys), Dataset.subset, SubDataset.subset_condition and                  *)
(* SubDataset.__getitem__ (rejection sampling of a counterfactual row).    *)
(*                                                                         *)
(* Conventions.  A Python str is a tuple of one-character strings, so that *)
(* split, join, substring containment and float() are computed and not     *)
(* assumed.  Row positions are 1-based here (Python position p is p+1).    *)
(* Row r of the response matrix (genes) is represented by the number r of  *)
(* the source row it holds.  A tensor is a tuple of integers.              *)
(***************************************************************************)
EXTENDS Integers, Sequences, FiniteSets, TLC

VARIABLES pc, args, ds, view, i, cf_i, cf_pert_dose_name, ret

vars == <<pc, args, ds, view, i, cf_i, cf_pert_dose_name, ret>>

\* ---------------------------------------------------------------- bounds
MaxRows == 3

MaxCfSamples == 2

\* ------------------------------------------------------- Python strings
\* The characters of the model's strings, in code-point order.
Chars == <<"+", "-", ".", "0", "1", "2", "_", "a", "b", "c", "d", "m", "o", "r", "u", "v", "x", "y">>

Ord(ch) == CHOOSE k \in 1..Len(Chars) : Chars[k] = ch

None == [none |-> TRUE]

Range(s) == {s[k] : k \in 1..Len(s)}

\* str < str
StrLess(s, t) ==
    \E k \in 1..(Len(t)) :
        /\ \A m \in 1..(k - 1) : m <= Len(s) /\ s[m] = t[m]
        /\ \/ k = Len(s) + 1
           \/ k <= Len(s) /\ Ord(s[k]) < Ord(t[k])

\* sub in s
StrContains(sub, s) ==
    \E k \in 0..(Len(s) - Len(sub)) : SubSeq(s, k + 1, k + Len(sub)) = sub

\* s.split(sep), sep one character
RECURSIVE StrSplit(_, _)
StrSplit(s, sep) ==
    IF sep \notin Range(s)
    THEN <<s>>
    ELSE LET k == CHOOSE k \in 1..Len(s) :
                      s[k] = sep /\ \A m \in 1..(k - 1) : s[m] # sep
         IN  <<SubSeq(s, 1, k - 1)>> \o StrSplit(SubSeq(s, k + 1, Len(s)), sep)

\* sep.join(parts), parts non empty
RECURSIVE StrJoin(_, _)
StrJoin(sep, parts) ==
    IF Len(parts) = 1
    THEN parts[1]
    ELSE parts[1] \o sep \o StrJoin(sep, Tail(parts))

Digits == <<"0", "1", "2">>

DigitVal(ch) == (CHOOSE k \in 1..Len(Digits) : Digits[k] = ch) - 1

RECURSIVE IntVal(_)
IntVal(s) ==
    IF Len(s) = 0 THEN 0
    ELSE 10 * IntVal(SubSeq(s, 1, Len(s) - 1)) + DigitVal(s[Len(s)])

\* float(d) for the decimal literals with an integral value ("2", "1.0"):
\* err is TRUE where float() raises ValueError.
ParseFloat(d) ==
    LET p == StrSplit(d, ".")
        isDigits(s) == \A k \in 1..Len(s) : s[k] \in Range(Digits)
    IN  IF /\ Len(p) <= 2
           /\ \A k \in 1..Len(p) : isDigits(p[k])
           /\ Len(p[1]) + (IF Len(p) = 2 THEN Len(p[2]) ELSE 0) > 0
           /\ Len(p) = 2 => IntVal(p[2]) = 0
        THEN [err |-> FALSE, val |-> IntVal(p[1])]
        ELSE [err |-> TRUE, val |-> 0]

\* np.unique(values): the distinct values, sorted
RECURSIVE SortedSeq(_)
SortedSeq(S) ==
    IF S = {} THEN <<>>
    ELSE LET m == CHOOSE x \in S : \A y \in S \ {x} : StrLess(x, y)
         IN  <<m>> \o SortedSeq(S \ {m})

\* list(dict.fromkeys(xs)): the distinct values in first-seen order
RECURSIVE FirstSeen(_)
FirstSeen(xs) ==
    IF Len(xs) = 0 THEN <<>>
    ELSE LET r == FirstSeen(SubSeq(xs, 1, Len(xs) - 1))
             x == xs[Len(xs)]
         IN  IF x \in Range(r) THEN r ELSE Append(r, x)

RECURSIVE Flatten(_)
Flatten(xss) ==
    IF Len(xss) = 0 THEN <<>> ELSE xss[1] \o Flatten(Tail(xss))

IndexOf(xs, x) == CHOOSE k \in 1..Len(xs) : xs[k] = x

\* np.where(cond)[0].tolist(): the positions where cond holds, increasing
RECURSIVE Where(_)
Where(cond) ==
    IF Len(cond) = 0 THEN <<>>
    ELSE LET r == Where(SubSeq(cond, 1, Len(cond) - 1))
         IN  IF cond[Len(cond)] THEN Append(r, Len(cond)) ELSE r

\* ------------------------------------------------------------- tensors
\* torch.eye(n)[k]
EyeRow(n, k) == [m \in 1..n |-> IF m = k THEN 1 ELSE 0]

VecAdd(u, v) == [m \in 1..Len(u) |-> u[m] + v[m]]

VecScale(c, u) == [m \in 1..Len(u) |-> c * u[m]]

\* sum(list of tensors of length n): 0 + t1 + t2 + ...
RECURSIVE VecSum(_, _)
VecSum(ts, n) ==
    IF Len(ts) = 0 THEN [m \in 1..n |-> 0]
    ELSE VecAdd(VecSum(SubSeq(ts, 1, Len(ts) - 1), n), ts[Len(ts)])

\* indx = lambda a, i: a[i]; i a position or a list of positions
indx(a, idx) == [q \in 1..Len(idx) |-> a[idx[q]]]

\* ------------------------------------------------- constructor arguments
\* A key argument is None, a str ([str |-> name]) or a list ([list |-> names]);
\* column names are atoms, compared by equality only.
IsNone(k) == "none" \in DOMAIN k

IsStr(k) == "str" \in DOMAIN k

KeyStr(name) == [str |-> name]

KeyList(names) == [list |-> names]

\* key in data.uns["fields"]
Registered(a, k) == IsStr(k) /\ k.str \in DOMAIN a.fields

\* key in data.obs.columns
InColumns(obs, k) == IsStr(k) /\ k.str \in DOMAIN obs

\* data.obs[name] = value (a column is added or replaced)
SetColumn(obs, name, col) == (name :> col) @@ obs

\* UseDummyDose as it would be if a dose key without a column fell back too.
UseDummyDoseIfNoColumn(a) ==
    ~Registered(a, a.dose_key) /\ ~InColumns(a.obs, a.dose_key)

\* elif dose_key is None, line 55: the dummy dose column is synthesized
UseDummyDose(a) == ~Registered(a, a.dose_key) /\ IsNone(a.dose_key)

\* elif covariate_keys is None or len(covariate_keys)==0, line 64
UseDummyCovar(a) ==
    /\ ~Registered(a, a.covariate_keys)
    /\ \/ IsNone(a.covariate_keys)
       \/ IsStr(a.covariate_keys) /\ a.covariate_keys.str = ""
       \/ "list" \in DOMAIN a.covariate_keys /\ Len(a.covariate_keys.list) = 0

\* elif split_key is None, line 76: the automatic train-test split
UseAutoSplit(a) == ~Registered(a, a.split_key) /\ IsNone(a.split_key)

\* Field resolution, Dataset.__init__ lines 41-88.  testIdx is the outcome of
\* train_test_split: the rows it assigns to "test".
FieldResolver(a, testIdx) ==
    LET f == a.fields
        rows == 1..a.n
        \* perturbation
        pertOk  == Registered(a, a.perturbation_key) \/ InColumns(a.obs, a.perturbation_key)
        pertKey == IF Registered(a, a.perturbation_key)
                   THEN f[a.perturbation_key.str].str ELSE a.perturbation_key.str
        \* control
        ctrlOk  == Registered(a, a.control_key) \/ InColumns(a.obs, a.control_key)
        ctrlKey == IF Registered(a, a.control_key)
                   THEN f[a.control_key.str].str ELSE a.control_key.str
        \* dose
        doseOk  == \/ Registered(a, a.dose_key)
                   \/ UseDummyDose(a)
                   \/ InColumns(a.obs, a.dose_key)
        doseKey == IF Registered(a, a.dose_key) THEN f[a.dose_key.str].str
                   ELSE IF UseDummyDose(a) THEN "dummy_dose"
                   ELSE a.dose_key.str
        obs1    == IF UseDummyDose(a)
                   THEN SetColumn(a.obs, "dummy_dose", [r \in rows |-> <<"1", ".", "0">>])
                   ELSE a.obs
        \* covariates
        covReg   == Registered(a, a.covariate_keys)
        covKeys  == IF covReg THEN f[a.covariate_keys.str].list
                    ELSE IF UseDummyCovar(a) THEN <<"dummy_covar">>
                    ELSE IF IsStr(a.covariate_keys) THEN <<a.covariate_keys.str>>
                    ELSE a.covariate_keys.list
        covOk    == covReg \/ UseDummyCovar(a)
                       \/ \A k \in 1..Len(covKeys) : covKeys[k] \in DOMAIN obs1
        obs2     == IF UseDummyCovar(a)
                    THEN SetColumn(obs1, "dummy_covar",
                           [r \in rows |-> <<"d", "u", "m", "m", "y", "-", "c", "o", "v", "a", "r">>])
                    ELSE obs1
        \* split
        splitOk  == \/ Registered(a, a.split_key)
                    \/ UseAutoSplit(a)
                    \/ InColumns(obs2, a.split_key)
        splitKey == IF Registered(a, a.split_key) THEN f[a.split_key.str].str
                    ELSE IF UseAutoSplit(a) THEN "split"
                    ELSE a.split_key.str
        obs3     == IF UseAutoSplit(a)
                    THEN SetColumn(obs2, "split",
                           [r \in rows |-> IF r \in testIdx THEN "test" ELSE "train"])
                    ELSE obs2
    IN  IF ~(pertOk /\ ctrlOk /\ doseOk /\ covOk /\ splitOk)
        THEN [err |-> "AssertionError",
              missing |-> IF ~pertOk THEN "perturbation"
                          ELSE IF ~ctrlOk THEN "control"
                          ELSE IF ~doseOk THEN "dose"
                          ELSE IF ~covOk THEN "covariates"
                          ELSE "split"]
        ELSE [err |-> "none", obs |-> obs3,
              perturbation_key |-> pertKey, control_key |-> ctrlKey,
              dose_key |-> doseKey, covariate_keys |-> covKeys,
              split_key |-> splitKey]

\* ---------------------------------------------------- Dataset.__init__
\* get_unique_perts as it would be with np.unique in place of dict.fromkeys.
get_unique_perts_sorted(all_perts) ==
    SortedSeq(Range(Flatten([k \in 1..Len(all_perts) |-> StrSplit(all_perts[k], "+")])))

\* get_unique_perts: every "+" part of every perturbation string, first seen first
get_unique_perts(all_perts) ==
    FirstSeen(Flatten([k \in 1..Len(all_perts) |-> StrSplit(all_perts[k], "+")]))

\* perts_dict = dict(zip(pert_unique, torch.eye(len(pert_unique))))
PertsDict(pert_unique) ==
    [p \in Range(pert_unique) |-> EyeRow(Len(pert_unique), IndexOf(pert_unique, p))]

\* One pass of the loop of lines 130-136 for the sample with perturbation string
\* comb and dose string dose: err names the exception it raises, if any.
EncodeSample(comb, dose, perts_dict, n) ==
    LET perturbation_combos ==
            LET parts == StrSplit(comb, "+") IN [k \in 1..Len(parts) |-> perts_dict[parts[k]]]
        dose_combos == StrSplit(dose, "+")
        bad == {j \in 1..Len(dose_combos) :
                    ParseFloat(dose_combos[j]).err \/ j > Len(perturbation_combos)}
        first == CHOOSE j \in bad : \A k \in bad : j <= k
    IN  IF bad # {}
        THEN [err |-> IF ParseFloat(dose_combos[first]).err THEN "ValueError" ELSE "IndexError",
              val |-> <<>>]
        ELSE [err |-> "none",
              val |-> VecSum([j \in 1..Len(dose_combos) |->
                                VecScale(ParseFloat(dose_combos[j]).val, perturbation_combos[j])],
                             n)]

\* The composite keys of lines 163 and 173-186.
CovNames(cov_cols, n) ==
    [r \in 1..n |-> StrJoin(<<"_">>, [k \in 1..Len(cov_cols) |-> cov_cols[k][r]])]

CovPert(cov_names, pert_col) ==
    [r \in 1..Len(cov_names) |-> cov_names[r] \o <<"_">> \o pert_col[r]]

PertDose(pert_col, dose_col) ==
    [r \in 1..Len(pert_col) |-> pert_col[r] \o <<"_">> \o dose_col[r]]

CovPertDose(cov_names, pert_dose) ==
    [r \in 1..Len(cov_names) |-> cov_names[r] \o <<"_">> \o pert_dose[r]]

\* Indices as it would be with the control rows taken by truth value.
IndicesByTruth(control_col, split_col) ==
    LET n == Len(control_col)
    IN  [all     |-> [r \in 1..n |-> r],
         control |-> Where([r \in 1..n |-> control_col[r] # 0]),
         treated |-> Where([r \in 1..n |-> control_col[r] # 1]),
         train   |-> Where([r \in 1..n |-> split_col[r] = "train"]),
         test    |-> Where([r \in 1..n |-> split_col[r] = "test"]),
         ood     |-> Where([r \in 1..n |-> split_col[r] = "ood"])]

\* self.indices, lines 90-97
Indices(control_col, split_col) ==
    LET n == Len(control_col)
    IN  [all     |-> [r \in 1..n |-> r],
         control |-> Where([r \in 1..n |-> control_col[r] = 1]),
         treated |-> Where([r \in 1..n |-> control_col[r] # 1]),
         train   |-> Where([r \in 1..n |-> split_col[r] = "train"]),
         test    |-> Where([r \in 1..n |-> split_col[r] = "test"]),
         ood     |-> Where([r \in 1..n |-> split_col[r] = "ood"])]

\* The constructor: [err |-> the exception raised] or [err |-> "none", self |-> the Dataset].
DatasetInit(a, testIdx) ==
    LET fr == FieldResolver(a, testIdx)
    IN  IF fr.err # "none" THEN fr
        ELSE
        LET n == a.n
            pert_col == fr.obs[fr.perturbation_key]
            dose_col == fr.obs[fr.dose_key]
            control_col == fr.obs[fr.control_key]
            split_col == fr.obs[fr.split_key]
            cov_cols == [k \in 1..Len(fr.covariate_keys) |-> fr.obs[fr.covariate_keys[k]]]
            control_names == SortedSeq({pert_col[r] : r \in {q \in 1..n : control_col[q] = 1}})
            pert_unique == get_unique_perts(pert_col)
            perts_dict == PertsDict(pert_unique)
            enc == [r \in 1..n |->
                      EncodeSample(pert_col[r], dose_col[r], perts_dict, Len(pert_unique))]
            badRows == {r \in 1..n : enc[r].err # "none"}
            firstBad == CHOOSE r \in badRows : \A q \in badRows : r <= q
            dupKeys == Cardinality(Range(fr.covariate_keys)) # Len(fr.covariate_keys)
            names == [k \in 1..Len(cov_cols) |-> SortedSeq(Range(cov_cols[k]))]
            cov_names == CovNames(cov_cols, n)
            pert_dose == PertDose(pert_col, dose_col)
        IN  IF badRows # {} THEN [err |-> enc[firstBad].err, row |-> firstBad]
            ELSE IF dupKeys THEN [err |-> "ValueError", row |-> 0]
            ELSE [err |-> "none",
                  self |->
                   [sample_cf |-> a.sample_cf,
                    cf_samples |-> a.cf_samples,
                    indices |-> Indices(control_col, split_col),
                    perturbation_key |-> fr.perturbation_key,
                    control_key |-> fr.control_key,
                    dose_key |-> fr.dose_key,
                    covariate_keys |-> fr.covariate_keys,
                    control_names |-> control_names,
                    genes |-> [r \in 1..n |-> r],
                    pert_names |-> pert_col,
                    doses |-> dose_col,
                    perts_dict |-> perts_dict,
                    perturbations |-> [r \in 1..n |-> enc[r].val],
                    controls |-> [r \in 1..n |-> control_col[r] # 0],
                    covars_dict |-> [k \in 1..Len(cov_cols) |->
                                       [v \in Range(names[k]) |-> IndexOf(names[k], v) - 1]],
                    covariates |-> [k \in 1..Len(cov_cols) |->
                                      [r \in 1..n |-> IndexOf(names[k], cov_cols[k][r]) - 1]],
                    num_covariates |-> [k \in 1..Len(cov_cols) |-> Len(names[k])],
                    cov_names |-> cov_names,
                    num_treatments |-> Len(pert_unique),
                    cov_pert |-> CovPert(cov_names, pert_col),
                    pert_dose |-> pert_dose,
                    cov_pert_dose |-> CovPertDose(cov_names, pert_dose)]]

\* ------------------------------------------------------------ SubDataset
\* utils.general_utils.unique_ind: each distinct value of arr mapped to the
\* positions of arr holding it.
unique_ind(arr) ==
    [key \in Range(arr) |-> Where([q \in 1..Len(arr) |-> arr[q] = key])]

\* SubDataset.__init__(dataset, indices); dataset is a Dataset or a SubDataset
SubDataset(dataset, indices) ==
    LET cov_pert_dose == indx(dataset.cov_pert_dose, indices)
    IN  [sample_cf |-> dataset.sample_cf,
         cf_samples |-> dataset.cf_samples,
         perturbation_key |-> dataset.perturbation_key,
         control_key |-> dataset.control_key,
         dose_key |-> dataset.dose_key,
         covariate_keys |-> dataset.covariate_keys,
         control_names |-> dataset.control_names,
         perts_dict |-> dataset.perts_dict,
         covars_dict |-> dataset.covars_dict,
         genes |-> indx(dataset.genes, indices),
         perturbations |-> indx(dataset.perturbations, indices),
         controls |-> indx(dataset.controls, indices),
         covariates |-> [k \in 1..Len(dataset.covariates) |->
                           indx(dataset.covariates[k], indices)],
         pert_names |-> indx(dataset.pert_names, indices),
         doses |-> indx(dataset.doses, indices),
         cov_names |-> indx(dataset.cov_names, indices),
         cov_pert |-> indx(dataset.cov_pert, indices),
         pert_dose |-> indx(dataset.pert_dose, indices),
         cov_pert_dose |-> cov_pert_dose,
         num_covariates |-> dataset.num_covariates,
         num_treatments |-> dataset.num_treatments,
         cov_pert_dose_idx |-> IF dataset.sample_cf THEN unique_ind(cov_pert_dose) ELSE <<>>]

\* list(S): the elements of a set in some order
RECURSIVE ListOfSet(_)
ListOfSet(S) ==
    IF S = {}
    THEN {<<>>}
    ELSE UNION {{<<x>> \o rest : rest \in ListOfSet(S \ {x})} : x \in S}

\* SubsetIdx as it would be with the two index sets united.
SubsetIdxUnion(self, split, condition) ==
    ListOfSet(Range(self.indices[split]) \cup Range(self.indices[condition]))

\* The index lists Dataset.subset(split, condition) may build, line 205
SubsetIdx(self, split, condition) ==
    ListOfSet(Range(self.indices[split]) \cap Range(self.indices[condition]))

\* ConditionIdx as it would be if the requested flag were not compared.
ConditionIdxOfControls(self, control) ==
    Where([p \in 1..Len(self.controls) |-> self.controls[p]])

\* The index list of SubDataset.subset_condition(control), control a bool, line 258
ConditionIdx(self, control) ==
    Where([p \in 1..Len(self.controls) |-> self.controls[p] = control])

\* SubDataset.subset_condition(control), lines 254-259; control is "None",
\* "True" or "False"
subset_condition(self, control) ==
    IF control = "None"
    THEN self
    ELSE SubDataset(self, ConditionIdx(self, control = "True"))

\* AnyControlIn as it would be with the names compared for equality.
AnyControlIs(control_names, name) ==
    \E k \in 1..Len(control_names) : control_names[k] = name

\* any(c in cf_pert_dose_name for c in self.control_names), line 264
AnyControlIn(control_names, name) ==
    \E k \in 1..Len(control_names) : StrContains(control_names[k], name)

\* np.random.choice(cf_inds, size): the arrays it may return, line 275
RandomChoice(cf_inds, size) == [1..size -> Range(cf_inds)]

Min(a, b) == IF a <= b THEN a ELSE b

NoRows == [some |-> FALSE, rows |-> <<>>]

\* ------------------------------------------------------------- the inputs
Labels == {"all", "control", "treated", "train", "test", "ood"}

DefaultCfSamples == 20

\* The rows a table is made of: perturbation, dose, control flag, split, covariate.
Row(pert, dose, control, split, cov) ==
    [pert |-> pert, dose |-> dose, control |-> control, split |-> split, cov |-> cov]

RowDomain ==
    { Row(<<"c">>, <<"1">>, 1, "train", <<"x">>),
      Row(<<"y", "_", "a">>, <<"1">>, 0, "train", <<"x">>),
      Row(<<"a">>, <<"1">>, 0, "test", <<"x", "_", "y">>),
      Row(<<"a", "+", "b">>, <<"1", "+", "2">>, 0, "test", <<"x">>),
      Row(<<"a", "+", "b">>, <<"1">>, 2, "ood", <<"x">>),
      Row(<<"a">>, <<"1", "+", "2">>, 0, "ood", <<"x">>) }

\* The rows of the tables the sampler is run on: a control row and two treated
\* rows whose names and covariates hold the "_" the composite keys are joined by.
RowDomainCf ==
    { Row(<<"c">>, <<"1">>, 1, "train", <<"x">>),
      Row(<<"y", "_", "a">>, <<"1">>, 0, "train", <<"x">>),
      Row(<<"a">>, <<"1">>, 0, "test", <<"x", "_", "y">>) }

\* The rows of the tables the views are taken of: every control flag and
\* every split label.
RowDomainView ==
    { Row(<<"c">>, <<"1">>, 1, "train", <<"x">>),
      Row(<<"a">>, <<"1">>, 0, "train", <<"x", "_", "y">>),
      Row(<<"a">>, <<"1">>, 0, "test", <<"x">>),
      Row(<<"a", "+", "b">>, <<"1", "+", "2">>, 2, "ood", <<"x">>) }

TablesOver(rows) == UNION {[1..n -> rows] : n \in 1..MaxRows}

\* How a logical field reaches the constructor: registered in uns["fields"],
\* passed as the name of a column, passed as None, passed as an empty list, or
\* a name that is neither registered nor a column.
Modes == {"registered", "column", "none", "empty", "missing"}

FieldNames == {"perturbation", "control", "dose", "covariates", "split"}

Physical ==
    [perturbation |-> "condition", control |-> "is_control", dose |-> "dose_val",
     covariates |-> "cell_type", split |-> "split_col"]

AllRegistered == [f \in FieldNames |-> "registered"]

\* The configurations: every field registered, every field passed as a column
\* name, one field passed as None or missing, or no covariate key at all.
Configs ==
    {AllRegistered, [f \in FieldNames |-> "column"]}
        \cup {[AllRegistered EXCEPT ![f] = m] : f \in FieldNames, m \in {"none", "missing"}}
        \cup {[AllRegistered EXCEPT !["covariates"] = "empty"]}

ColumnOf(t, f) ==
    [r \in 1..Len(t) |->
        CASE f = "perturbation" -> t[r].pert
          [] f = "control" -> t[r].control
          [] f = "dose" -> t[r].dose
          [] f = "covariates" -> t[r].cov
          [] f = "split" -> t[r].split]

KeyOf(cfg, f) ==
    CASE cfg[f] = "registered" -> KeyStr(f)
      [] cfg[f] = "column" -> KeyStr(Physical[f])
      [] cfg[f] = "none" -> None
      [] cfg[f] = "empty" -> KeyList(<<>>)
      [] cfg[f] = "missing" -> KeyStr(f)

Arguments(t, cfg, sample_cf, cf_samples) ==
    LET present == {f \in FieldNames : cfg[f] \in {"registered", "column"}}
        reg == {f \in FieldNames : cfg[f] = "registered"}
        nameOf == [c \in {Physical[f] : f \in present} |->
                      CHOOSE f \in present : Physical[f] = c]
    IN  [n |-> Len(t),
         obs |-> [c \in DOMAIN nameOf |-> ColumnOf(t, nameOf[c])],
         fields |-> [f \in reg |-> IF f = "covariates" THEN KeyList(<<Physical[f]>>)
                                   ELSE KeyStr(Physical[f])],
         perturbation_key |-> KeyOf(cfg, "perturbation"),
         control_key |-> KeyOf(cfg, "control"),
         dose_key |-> KeyOf(cfg, "dose"),
         covariate_keys |-> KeyOf(cfg, "covariates"),
         split_key |-> KeyOf(cfg, "split"),
         sample_cf |-> sample_cf,
         cf_samples |-> cf_samples]

\* ----------------------------------------------------------- the machine
\* The state before the constructor is called on one of the given inputs.
InitOver(tables, configs, flags, caps) ==
    /\ pc = "new"
    /\ \E t \in tables, cfg \in configs, sample_cf \in flags :
         \E cf_samples \in IF sample_cf THEN caps ELSE {DefaultCfSamples} :
            args = Arguments(t, cfg, sample_cf, cf_samples)
    /\ ds = None
    /\ view = None
    /\ i = 0
    /\ cf_i = 0
    /\ cf_pert_dose_name = <<>>
    /\ ret = None

Init == InitOver(TablesOver(RowDomainCf), {AllRegistered}, BOOLEAN, 1..MaxCfSamples)

InitFair == InitOver(TablesOver(RowDomainCf), {AllRegistered}, BOOLEAN, {1})

InitNew == InitOver(TablesOver(RowDomain), Configs, {FALSE}, {})

InitView == InitOver(TablesOver(RowDomainView), {AllRegistered}, {FALSE}, {})

\* Dataset(data, ...): the constructor returns or raises
Construct ==
    /\ pc = "new"
    /\ \E testIdx \in IF UseAutoSplit(args) THEN SUBSET (1..args.n) ELSE {{}} :
         LET r == DatasetInit(args, testIdx)
         IN  IF r.err = "none"
             THEN pc' = "ready" /\ ds' = r.self
             ELSE pc' = "failed" /\ ds' = r
    /\ UNCHANGED <<args, view, i, cf_i, cf_pert_dose_name, ret>>

\* dataset.subset(split, condition)
Subset ==
    /\ pc = "ready"
    /\ \E idx \in UNION {SubsetIdx(ds, split, condition) : split, condition \in Labels} :
         view' = SubDataset(ds, idx)
    /\ UNCHANGED <<pc, args, ds, i, cf_i, cf_pert_dose_name, ret>>

\* view.subset_condition(control), control one of None, True, False
SubsetCondition(control) ==
    /\ pc = "ready"
    /\ view # None
    /\ view' = subset_condition(view, control)
    /\ UNCHANGED <<pc, args, ds, i, cf_i, cf_pert_dose_name, ret>>

\* view[j]: line 263; control_names[0] raises IndexError on an empty array
GetItem(j) ==
    /\ pc = "ready"
    /\ view # None
    /\ i' = j
    /\ cf_i' = 0
    /\ ret' = None
    /\ IF Len(view.control_names) = 0
       THEN pc' = "raised" /\ cf_pert_dose_name' = <<>>
       ELSE pc' = "loop" /\ cf_pert_dose_name' = view.control_names[1]
    /\ UNCHANGED <<args, ds, view>>

\* The while condition of line 264 holds: the body is entered
LoopEnter ==
    /\ pc = "loop"
    /\ AnyControlIn(view.control_names, cf_pert_dose_name)
    /\ pc' = "draw"
    /\ UNCHANGED <<args, ds, view, i, cf_i, cf_pert_dose_name, ret>>

\* The body of the loop, lines 265-266, drawing position j;
\* np.random.choice(0) raises ValueError
LoopDraw(j) ==
    /\ pc = "draw"
    /\ IF Len(view.pert_dose) = 0
       THEN /\ j = 1
            /\ pc' = "raised"
            /\ UNCHANGED <<cf_i, cf_pert_dose_name>>
       ELSE /\ j \in 1..Len(view.pert_dose)
            /\ cf_i' = j
            /\ cf_pert_dose_name' = view.pert_dose[j]
            /\ pc' = "loop"
    /\ UNCHANGED <<args, ds, view, i, ret>>

\* The loop ends, lines 268-283: the call returns its tuple, or raises
\* IndexError when i is no position of the view
LoopExit ==
    /\ pc = "loop"
    /\ ~AnyControlIn(view.control_names, cf_pert_dose_name)
    /\ IF i > Len(view.genes)
       THEN pc' = "raised" /\ ret' = None
       ELSE /\ pc' = "done"
            /\ LET cf_name == view.cov_names[i] \o <<"_">> \o cf_pert_dose_name
                   tuple(cf_sel, cf_genes) ==
                       [genes |-> view.genes[i],
                        perturbations |-> view.perturbations[i],
                        cf_genes |-> cf_genes,
                        cf_perturbations |-> view.perturbations[cf_i],
                        covariates |-> [k \in 1..Len(view.covariates) |->
                                          view.covariates[k][i]],
                        cf_sel |-> cf_sel]
               IN  IF view.sample_cf /\ cf_name \in DOMAIN view.cov_pert_dose_idx
                   THEN LET cf_inds == view.cov_pert_dose_idx[cf_name]
                        IN  \E cf_sel \in RandomChoice(cf_inds,
                                              Min(Len(cf_inds), view.cf_samples)) :
                               ret' = tuple(cf_sel,
                                            [some |-> TRUE, rows |-> indx(view.genes, cf_sel)])
                   ELSE ret' = tuple(<<>>, NoRows)
    /\ UNCHANGED <<args, ds, view, i, cf_i, cf_pert_dose_name>>

\* The caller takes the result (or the exception) and goes on
Return ==
    /\ pc \in {"done", "raised"}
    /\ pc' = "ready"
    /\ i' = 0
    /\ cf_i' = 0
    /\ cf_pert_dose_name' = <<>>
    /\ ret' = None
    /\ UNCHANGED <<args, ds, view>>

Next ==
    \/ Construct
    \/ Subset
    \/ \E control \in {"None", "True", "False"} : SubsetCondition(control)
    \/ \E j \in 1..MaxRows : GetItem(j)
    \/ LoopEnter
    \/ \E j \in 1..MaxRows : LoopDraw(j)
    \/ LoopExit
    \/ Return

Spec == Init /\ [][Next]_vars

\* A draw that ends the loop: the row drawn carries no control name
LoopAccept ==
    \E j \in 1..MaxRows :
        /\ LoopDraw(j)
        /\ pc' = "loop"
        /\ ~AnyControlIn(view.control_names, cf_pert_dose_name')

\* A call that can take a step takes it, and the random draws are fair: a
\* row that can be drawn again and again is drawn.
FairSpec ==
    /\ InitFair /\ [][Next]_vars
    /\ WF_vars(LoopEnter)
    /\ WF_vars(\E j \in 1..MaxRows : LoopDraw(j))
    /\ SF_vars(LoopAccept)
    /\ WF_vars(LoopExit)

\* Construction alone, over every table and configuration.
SpecNew == InitNew /\ [][Construct]_vars

\* Construction and the views, over every table.
NextView ==
    \/ Construct
    \/ Subset
    \/ \E control \in {"None", "True", "False"} : SubsetCondition(control)

SpecView == InitView /\ [][NextView]_vars

\* ================================================================ claims

\* ---- C1 ----------------------------------------------------------------
\* The agents of sample k and its dose parts, as the claim splits them.
C1_Agents(k) == StrSplit(ds.pert_names[k], "+")

C1_Doses(k) == StrSplit(ds.doses[k], "+")

\* Every agent occurrence of the table as <<row, part>>, and the first
\* occurrence of agent a in dataset order.
C1_Occurrences ==
    UNION {{<<k, j>> : j \in 1..Len(C1_Agents(k))} : k \in 1..Len(ds.pert_names)}

C1_Before(o1, o2) == o1[1] < o2[1] \/ (o1[1] = o2[1] /\ o1[2] < o2[2])

C1_First(a) ==
    CHOOSE o \in C1_Occurrences :
        /\ C1_Agents(o[1])[o[2]] = a
        /\ \A o2 \in C1_Occurrences : C1_Agents(o2[1])[o2[2]] = a => ~C1_Before(o2, o)

C1_AllAgents == {C1_Agents(o[1])[o[2]] : o \in C1_Occurrences}

\* The first-seen position of agent a in the vocabulary.
C1_Position(a) ==
    1 + Cardinality({b \in C1_AllAgents : C1_Before(C1_First(b), C1_First(a))})

RECURSIVE C1_Sum(_, _, _)
C1_Sum(k, m, n) ==
    IF n = 0 THEN 0
    ELSE C1_Sum(k, m, n - 1)
           + (IF C1_Position(C1_Agents(k)[n]) = m
              THEN ParseFloat(C1_Doses(k)[n]).val ELSE 0)

\* C1: in a constructed Dataset, for every sample k whose perturbation and dose
\* strings split on "+" into n agents and n doses, perturbations[k] is the sum
\* over j of d_j * one_hot(a_j), one_hot(a) of length num_treatments with its 1
\* at a's first-seen position; num_treatments counts the distinct single agents.
C1_EncodingIsDoseWeightedSum ==
    pc = "ready" =>
        /\ ds.num_treatments = Cardinality(C1_AllAgents)
        /\ \A k \in 1..Len(ds.pert_names) :
              Len(C1_Agents(k)) = Len(C1_Doses(k)) =>
                  /\ Len(ds.perturbations[k]) = ds.num_treatments
                  /\ \A m \in 1..ds.num_treatments :
                        ds.perturbations[k][m] = C1_Sum(k, m, Len(C1_Agents(k)))

\* A Dataset holding a two-agent combination with two different doses, whose
\* second agent is not the last of the vocabulary, and a single-agent sample.
C1_Witness ==
    /\ pc = "ready"
    /\ \E k \in 1..Len(ds.pert_names) :
          /\ Len(C1_Agents(k)) = 2
          /\ Len(C1_Doses(k)) = 2
          /\ C1_Doses(k)[1] # C1_Doses(k)[2]
          /\ C1_Position(C1_Agents(k)[2]) < ds.num_treatments
    /\ \E k \in 1..Len(ds.pert_names) :
          Len(C1_Agents(k)) = 1 /\ Len(C1_Doses(k)) = 1

\* ---- C2 ----------------------------------------------------------------
C2_Count(xs, x) == Cardinality({q \in 1..Len(xs) : xs[q] = x})

\* C2: in a constructed Dataset every row position of indices["all"] occurs
\* exactly once in indices["control"] and indices["treated"] taken together,
\* and these two lists hold nothing else.
C2_ControlTreatedPartition ==
    pc = "ready" =>
        /\ ds.indices["all"] = [r \in 1..args.n |-> r]
        /\ \A r \in 1..args.n :
              C2_Count(ds.indices["control"], r) + C2_Count(ds.indices["treated"], r) = 1
        /\ Range(ds.indices["control"]) \cup Range(ds.indices["treated"]) \subseteq 1..args.n

\* A Dataset with a row flagged 1, a row flagged 0 and a row flagged 2.
C2_Witness ==
    /\ pc = "ready"
    /\ "is_control" \in DOMAIN args.obs
    /\ {0, 1, 2} \subseteq Range(args.obs["is_control"])

\* ---- C7 ----------------------------------------------------------------
\* C7: construction fails for every input in which some sample's perturbation
\* and dose strings split on "+" into lists of different length (stated for the
\* inputs whose perturbation and dose columns are registered).
C7_MismatchAlwaysFails ==
    (/\ pc = "ready"
     /\ {"condition", "dose_val"} \subseteq DOMAIN args.obs)
        => \A r \in 1..args.n :
              Len(StrSplit(args.obs["condition"][r], "+"))
                  = Len(StrSplit(args.obs["dose_val"][r], "+"))

\* ---- C8 ----------------------------------------------------------------
\* The logical field has no physical column: its key is neither registered in
\* uns["fields"] nor the name of a column.
C8_NoColumn(key) ==
    ~ (/\ "str" \in DOMAIN key
       /\ key.str \in DOMAIN args.fields \cup DOMAIN args.obs)

\* No key is given at all: None, or an empty list of covariate keys.
C8_NotGiven(key) ==
    \/ "none" \in DOMAIN key
    \/ "list" \in DOMAIN key /\ key.list = <<>>

C8_MissingFieldError == pc = "failed" /\ ds.err = "AssertionError"

\* C8 as stated: with the perturbation and control fields present, a dose,
\* split or covariate field without a physical column never makes construction
\* fail for a missing field.
C8_FallbackWheneverNoColumn ==
    (/\ ~C8_NoColumn(args.perturbation_key)
     /\ ~C8_NoColumn(args.control_key)
     /\ \/ C8_NoColumn(args.dose_key)
        \/ C8_NoColumn(args.split_key)
        \/ C8_NoColumn(args.covariate_keys))
        => ~C8_MissingFieldError

\* C8 amended: construction fails for a missing field exactly when some key
\* has no physical column and is not a dose, split or covariate key that was
\* not given (None, or no covariate keys); a key that was not given gets its
\* fallback: dose 1.0 in every row, every row in exactly one of train and test,
\* the single covariate dummy_covar.
C8_FallbackOnlyWhenNotGiven ==
    /\ pc # "new" =>
          (C8_MissingFieldError <=>
              \/ C8_NoColumn(args.perturbation_key)
              \/ C8_NoColumn(args.control_key)
              \/ C8_NoColumn(args.dose_key) /\ ~C8_NotGiven(args.dose_key)
              \/ C8_NoColumn(args.split_key) /\ ~C8_NotGiven(args.split_key)
              \/ C8_NoColumn(args.covariate_keys) /\ ~C8_NotGiven(args.covariate_keys))
    /\ pc = "ready" =>
          /\ C8_NotGiven(args.dose_key) =>
                /\ ds.dose_key = "dummy_dose"
                /\ \A r \in 1..args.n : ds.doses[r] = <<"1", ".", "0">>
          /\ C8_NotGiven(args.split_key) =>
                \A r \in 1..args.n :
                    /\ C2_Count(ds.indices["train"], r) + C2_Count(ds.indices["test"], r) = 1
                    /\ C2_Count(ds.indices["ood"], r) = 0
          /\ C8_NotGiven(args.covariate_keys) =>
                /\ ds.covariate_keys = <<"dummy_covar">>
                /\ Len(ds.covariates) = 1
                /\ \A r \in 1..args.n : ds.covariates[1][r] = 0

\* A Dataset built without a dose key, every dose the dummy 1.0.
C8_Witness ==
    /\ pc = "ready"
    /\ C8_NotGiven(args.dose_key)
    /\ ds.dose_key = "dummy_dose"

\* ---- C3 ----------------------------------------------------------------
\* The row sets of the views Dataset.subset(s, c) may return.
C3_RowSets(s, c) ==
    {Range(SubDataset(ds, idx).genes) : idx \in SubsetIdx(ds, s, c)}

\* C3: for labels c1, c2 with disjoint index sets and any split label s, every
\* view subset(s, c1) may build shares no row with any view subset(s, c2) may
\* build; and every view subset("all", "all") may build holds each row of the
\* Dataset exactly once, so its length is len(Dataset).
C3_SubsetsDisjointAndFull ==
    pc = "ready" =>
        /\ \A c1 \in Labels, c2 \in Labels :
              Range(ds.indices[c1]) \cap Range(ds.indices[c2]) = {} =>
                  \A s \in Labels :
                      \A R1 \in C3_RowSets(s, c1), R2 \in C3_RowSets(s, c2) :
                          R1 \cap R2 = {}
        /\ \A idx \in SubsetIdx(ds, "all", "all") :
              LET v == SubDataset(ds, idx)
              IN  /\ Len(v.genes) = Len(ds.genes)
                  /\ \A r \in 1..Len(ds.genes) : C2_Count(v.genes, r) = 1

\* The current view holds every row of a Dataset of control and treated rows,
\* in another order than the Dataset's.
C3_Witness ==
    /\ pc = "ready"
    /\ view # None
    /\ Len(view.genes) = Len(ds.genes)
    /\ view.genes # ds.genes
    /\ ds.indices["control"] # <<>>
    /\ ds.indices["treated"] # <<>>

\* ---- C6 ----------------------------------------------------------------
\* The positions p of view V with V.controls[p] = c, in increasing order.
C6_Positions(V, c) ==
    LET S == {p \in 1..Len(V.controls) : V.controls[p] = c}
    IN  [q \in 1..Cardinality(S) |->
            CHOOSE p \in S : Cardinality({x \in S : x < p}) = q - 1]

C6_Vectors ==
    {"genes", "perturbations", "controls", "pert_names", "doses", "cov_names",
     "cov_pert", "pert_dose", "cov_pert_dose"}

\* View R holds the rows of view V at the positions P, in that order.
C6_Resliced(R, V, P) ==
    /\ \A f \in C6_Vectors : R[f] = [q \in 1..Len(P) |-> V[f][P[q]]]
    /\ Len(R.covariates) = Len(V.covariates)
    /\ \A k \in 1..Len(V.covariates) :
          R.covariates[k] = [q \in 1..Len(P) |-> V.covariates[k][P[q]]]

\* Every per-sample vector of view R is aligned with the Dataset row it holds.
C6_Aligned(R) ==
    \A q \in 1..Len(R.genes) :
        /\ \A f \in C6_Vectors : Len(R[f]) = Len(R.genes) /\ R[f][q] = ds[f][R.genes[q]]
        /\ \A k \in 1..Len(ds.covariates) :
              R.covariates[k][q] = ds.covariates[k][R.genes[q]]

\* C6: for the current view V (of the Dataset or of another view),
\* V.subset_condition(None) is V, and V.subset_condition(c) for a bool c holds
\* exactly the rows of V at the positions p with V.controls[p] = c, in
\* increasing p, every per-sample vector re-sliced by these positions and
\* aligned with the rows of the Dataset.
C6_SubsetConditionReslices ==
    (pc = "ready" /\ view # None) =>
        /\ subset_condition(view, "None") = view
        /\ C6_Aligned(view)
        /\ \A c \in BOOLEAN :
              LET R == subset_condition(view, IF c THEN "True" ELSE "False")
              IN  /\ C6_Resliced(R, view, C6_Positions(view, c))
                  /\ C6_Aligned(R)

\* The current view holds control and treated rows in another order than the
\* Dataset's.
C6_Witness ==
    /\ pc = "ready"
    /\ view # None
    /\ \E p, q \in 1..Len(view.genes) :
          /\ p < q
          /\ view.genes[p] > view.genes[q]
          /\ view.controls[p] # view.controls[q]

\* ---- C4 ----------------------------------------------------------------
C4_OnlyControlRows ==
    /\ Len(view.controls) > 0
    /\ \A p \in 1..Len(view.controls) : view.controls[p]

\* C4: a sample requested from a view that holds only control rows ends, with
\* a result or an error; it does not stay in the rejection loop for ever.
C4_OnlyControlViewEnds ==
    (pc = "loop" /\ C4_OnlyControlRows) ~> (pc \in {"done", "raised"})

\* ---- C5 ----------------------------------------------------------------
\* The group key of the call and the positions of the view that carry it.
C5_Key == view.cov_names[i] \o <<"_">> \o view.pert_dose[cf_i]

C5_Group == {p \in 1..Len(view.cov_pert_dose) : view.cov_pert_dose[p] = C5_Key}

\* C5: when sample_cf is on and the group G of the key is not empty, the
\* counterfactual responses are the rows at min(|G|, cf_samples) pairwise
\* distinct positions of G; otherwise the counterfactual response is None.
C5_DrawnWithoutReplacement ==
    pc = "done" =>
        IF view.sample_cf /\ C5_Group # {}
        THEN /\ ret.cf_genes.some
             /\ Len(ret.cf_sel) = Min(Cardinality(C5_Group), view.cf_samples)
             /\ Range(ret.cf_sel) \subseteq C5_Group
             /\ \A p, q \in 1..Len(ret.cf_sel) : p # q => ret.cf_sel[p] # ret.cf_sel[q]
             /\ ret.cf_genes.rows = [q \in 1..Len(ret.cf_sel) |-> view.genes[ret.cf_sel[q]]]
        ELSE ~ret.cf_genes.some

\* ---- C9 ----------------------------------------------------------------
\* String c occurs in string s.
C9_Occurs(c, s) == \E a \in 1..Len(s), b \in 1..Len(s) : SubSeq(s, a, b) = c

\* Row p of the view carries none of the control names in its pert_dose.
C9_NonControlRow(p) ==
    /\ p \in 1..Len(view.pert_dose)
    /\ \A k \in 1..Len(view.control_names) :
          ~C9_Occurs(view.control_names[k], view.pert_dose[p])

\* C9: with a control name registered, a call view[i] for a position i of the
\* view returns, under fair draws, if and only if some row of the view carries
\* no control name in its pert_dose; when it returns, the accepted row cf_i is
\* such a row and the fourth element is perturbations[cf_i].
C9_ReturnsIffNonControlRow ==
    /\ [](pc = "done" =>
            /\ C9_NonControlRow(cf_i)
            /\ ret.cf_perturbations = view.perturbations[cf_i])
    /\ (pc = "loop" /\ i \in 1..Len(view.genes)
                    /\ \E p \in 1..Len(view.pert_dose) : C9_NonControlRow(p))
          ~> (pc = "done")

\* A call returned from a view that also holds a control row, with the
\* counterfactual responses sampled.
C9_Witness ==
    /\ pc = "done"
    /\ ret.cf_genes.some
    /\ \E p \in 1..Len(view.pert_dose) : ~C9_NonControlRow(p)

\* ---- C10 ---------------------------------------------------------------
\* C10: every position used for the counterfactual responses is a position of
\* the view that shares sample i's covariates and the accepted row's
\* perturbation and dose.
C10_CounterfactualRowsMatch ==
    (pc = "done" /\ view.sample_cf) =>
        \A q \in 1..Len(ret.cf_sel) :
            LET p == ret.cf_sel[q]
            IN  /\ p \in 1..Len(view.genes)
                /\ view.cov_names[p] = view.cov_names[i]
                /\ view.pert_dose[p] = view.pert_dose[cf_i]

====
